---- MODULE Spec2Model ----
(***************************************************************************)
(* Model of the vote-confirmation path (VotesService.create and            *)
(* VotesService.confirmPayment) and of the leaderboard recompute path      *)
(* (LeaderboardGateway.broadcastLeaderboardUpdate, driven by the periodic  *)
(* timer and by triggerUpdate; LeaderboardService.getLeaderboard/getStats),*)
(* of the read queries that go through getLeaderboard and of the gateway's *)
(* observers (handleConnection, sendLeaderboardToClient, server.emit).     *)
(*                                                                         *)
(* The program runs on one event loop: code between two `await`s is one    *)
(* atomic step, and every awaited store call is a point where the other    *)
(* handlers may run.  Each action below is one such step: the store call   *)
(* that was awaited together with the synchronous code that follows it.    *)
(* Store calls succeed (the provider's initializePayment may fail, as it is *)
(* an expected outcome of create), except in SpecFault, where the reads of *)
(* a recompute pass may reject.                                            *)
(***************************************************************************)
EXTENDS Integers, Sequences, FiniteSets, TLC

\* ---------------------------------------------------------------- bounds
\* Candidates in the store; the last one is not APPROVED.
NumCands == 3
\* Votes that create() may open.
MaxVotes == 2
\* confirmPayment calls (webhook deliveries) in one behaviour.
MaxCalls == 2
\* Periodic timer ticks in one behaviour.
MaxTicks == 1
\* Read queries (REST or socket requests) in one behaviour.
MaxQueries == 2
\* Largest totalVotes of a candidate row when the ranking inputs are drawn.
MaxDrawn == 1
\* Observers (sockets) that connect in one behaviour.
MaxClients == 1
\* 'leaderboard:refresh' requests one observer sends.
MaxRefresh == 1
\* Force-refresh calls (POST /leaderboard/refresh) in one behaviour.
MaxAdmin == 1
\* Calls of startAutoUpdates after the one of construction.
MaxStarts == 2

\* ------------------------------------------------------------- constants
\* VotesService.VOTE_AMOUNT: 100 FCFA per vote.
VOTE_AMOUNT == 100
\* refreshLeaderboard() asks getLeaderboard for the top 100.
RefreshLimit == 100

Cands == 1..NumCands
Votes == 1..MaxVotes
Calls == 1..MaxCalls
\* A recompute pass is owned by the confirmPayment call that triggered it
\* (pass k for call k), by a timer tick (passes MaxCalls+1 ..) or by a
\* force-refresh call (the passes after those).
TickPasses == (MaxCalls + 1)..(MaxCalls + MaxTicks)
AdminPasses == (MaxCalls + MaxTicks + 1)..(MaxCalls + MaxTicks + MaxAdmin)
Passes == Calls \cup TickPasses \cup AdminPasses
Clients == 1..MaxClients

\* The countries of the candidates: candidate c's is CountryOf(c).
Countries == {"CM", "SN"}
CountryOf(c) == IF c % 2 = 1 THEN "CM" ELSE "SN"
\* A candidate id that no row carries.
UnknownCand == NumCands + 1

\* The provider reference initializePayment returns for vote v, and a
\* reference the provider never issued.
RefOf(v) == v
UnknownRef == MaxVotes + 1
Outcomes == {"COMPLETED", "FAILED"}

VARIABLES
    cand,               \* Metric Store: candidate rows
    vote,               \* vote rows
    tx,                 \* status of the transaction row of each vote ("NONE": no row)
    crpc,               \* position of create() for each vote
    issued,             \* references the provider has returned
    call,               \* confirmPayment calls: position and locals
    pass,               \* broadcastLeaderboardUpdate passes: position and locals
    cachedLeaderboard,  \* LeaderboardService.cachedLeaderboard
    lastUpdate,         \* LeaderboardService.lastUpdate (logical clock)
    updateInterval,     \* LeaderboardGateway.updateInterval: a timer handle, 0 for null
    timers,             \* the interval timers armed in the event loop (handles)
    updates,            \* number of 'leaderboard:update' broadcasts emitted
    applied,            \* per vote: candidate increments made on its account
    query,              \* the read query in progress: position and locals
    client,             \* observers: socket state, sendLeaderboardToClient locals
    inbox,              \* per observer: the messages its socket has received
    admin               \* force-refresh calls: position and locals

vars == <<cand, vote, tx, crpc, issued, call, pass, cachedLeaderboard,
          lastUpdate, updateInterval, timers, updates, applied, query, client,
          inbox,
          admin>>

storeVars == <<cand, vote, tx, crpc, issued, applied>>
boardVars == <<cachedLeaderboard, lastUpdate, updateInterval, timers, updates>>
sideVars == <<query, client, inbox, admin>>

\* --------------------------------------------------------------- helpers
Min(a, b) == IF a < b THEN a ELSE b

RECURSIVE SumOver(_, _)
SumOver(S, f) ==
    IF S = {} THEN 0
    ELSE LET x == CHOOSE y \in S : TRUE
         IN  f[x] + SumOver(S \ {x}, f)

NoVote ==
    [status |-> "NONE", providerTxId |-> 0, candidateId |-> 0, amount |-> 0,
     isVerified |-> FALSE]

NewCall ==
    [pc |-> "new", ref |-> 0, outcome |-> "NONE", voteId |-> 0, seen |-> "NONE",
     hadTx |-> FALSE, writes |-> 0, incs |-> 0, trigs |-> 0, ret |-> "none"]

\* wrote: the pass has replaced cachedLeaderboard and lastUpdate.
IdlePass ==
    [pc |-> "idle", rows |-> <<>>, lb |-> <<>>, stats |-> <<>>, wrote |-> FALSE]

\* n: the number of queries started so far.
\* from: 0 for a REST request, the socket for an observer's; arg: the
\* candidate id or the country asked for; result: what the service call
\* returned, held until the controller has answered.
\* last: the kind, the limit and the result of the REST request answered
\* before this one, when it was one of the derived requests (the answer to
\* a ranking request is the snapshot it leaves in the cache, or a prefix).
NoAnswer == [kind |-> "none", limit |-> 0, result |-> <<>>]
IdleQuery ==
    [pc |-> "idle", kind |-> "none", limit |-> 0, rows |-> <<>>, n |-> 0,
     from |-> 0, arg |-> 0, result |-> <<>>, last |-> NoAnswer]

\* lb: the list refreshLeaderboard returned to the controller; pushed: the
\* list the call's pass has emitted; repl: the snapshot replacements made
\* on the call's account.
IdleAdmin ==
    [pc |-> "idle", rows |-> <<>>, lb |-> <<>>, pushed |-> <<>>, repl |-> 0]

\* An observer that has not connected yet. asked: the refresh requests it
\* has sent; failed: the requests it has sent whose handling failed.
NoClient ==
    [state |-> "off", pc |-> "idle", rows |-> <<>>, lb |-> <<>>, stats |-> <<>>,
     asked |-> 0, failed |-> 0]

\* ------------------------------------------------------ LeaderboardService
\* where: { status: APPROVED }
Approved(cs) == {c \in Cands : cs[c].status = "APPROVED"}

\* Variant: equal votes are ordered by revenue ascending.
Before_RevenueAscending(a, b) ==
    \/ a.totalVotes > b.totalVotes
    \/ a.totalVotes = b.totalVotes /\ a.totalRevenue < b.totalRevenue
    \/ /\ a.totalVotes = b.totalVotes
       /\ a.totalRevenue = b.totalRevenue
       /\ a.createdAt < b.createdAt

\* Variant: fewer votes come first.
Before_VotesAscending(a, b) ==
    \/ a.totalVotes < b.totalVotes
    \/ a.totalVotes = b.totalVotes /\ a.totalRevenue > b.totalRevenue
    \/ /\ a.totalVotes = b.totalVotes
       /\ a.totalRevenue = b.totalRevenue
       /\ a.createdAt < b.createdAt

\* orderBy totalVotes desc, totalRevenue desc, createdAt asc.
Before(a, b) ==
    \/ a.totalVotes > b.totalVotes
    \/ a.totalVotes = b.totalVotes /\ a.totalRevenue > b.totalRevenue
    \/ /\ a.totalVotes = b.totalVotes
       /\ a.totalRevenue = b.totalRevenue
       /\ a.createdAt < b.createdAt

Position(c, cs) ==
    1 + Cardinality({d \in Approved(cs) \ {c} : Before(cs[d], cs[c])})

\* prisma.candidate.findMany({where APPROVED, orderBy ..., take: limit, select})
FindManyApproved(cs, limit) ==
    [i \in 1..Min(limit, Cardinality(Approved(cs))) |->
        LET c == CHOOSE d \in Approved(cs) : Position(d, cs) = i
        IN  [id |-> c, totalVotes |-> cs[c].totalVotes,
             totalRevenue |-> cs[c].totalRevenue]]

\* Variant: an id that is not in the list finds the list's first entry.
FindEntry_OrFirst(board, id) ==
    IF \E i \in 1..Len(board) : board[i].candidateId = id
    THEN CHOOSE i \in 1..Len(board) : board[i].candidateId = id
    ELSE IF Len(board) > 0 THEN 1 ELSE 0

\* cachedLeaderboard.find(entry => entry.candidateId === id): index, 0 if none.
FindEntry(board, id) ==
    IF \E i \in 1..Len(board) : board[i].candidateId = id
    THEN CHOOSE i \in 1..Len(board) :
            /\ board[i].candidateId = id
            /\ \A j \in 1..(i - 1) : board[j].candidateId # id
    ELSE 0

\* Variant: rank is the array index.
MapEntries_ZeroBased(rows, cache) ==
    [i \in 1..Len(rows) |->
        LET p == FindEntry(cache, rows[i].id)
        IN  [rank |-> i - 1,
             candidateId |-> rows[i].id,
             totalVotes |-> rows[i].totalVotes,
             totalRevenue |-> rows[i].totalRevenue,
             voteChange |-> IF p # 0 THEN rows[i].totalVotes - cache[p].totalVotes
                            ELSE 0,
             rankChange |-> IF p # 0 THEN cache[p].rank - (i - 1) ELSE 0]]

\* Variant: rankChange is the new rank minus the previous one.
MapEntries_RankFlipped(rows, cache) ==
    [i \in 1..Len(rows) |->
        LET p == FindEntry(cache, rows[i].id)
        IN  [rank |-> i,
             candidateId |-> rows[i].id,
             totalVotes |-> rows[i].totalVotes,
             totalRevenue |-> rows[i].totalRevenue,
             voteChange |-> IF p # 0 THEN rows[i].totalVotes - cache[p].totalVotes
                            ELSE 0,
             rankChange |-> IF p # 0 THEN i - cache[p].rank ELSE 0]]

\* candidates.map((candidate, index) => {...}) of getLeaderboard.
MapEntries(rows, cache) ==
    [i \in 1..Len(rows) |->
        LET p == FindEntry(cache, rows[i].id)
        IN  [rank |-> i,
             candidateId |-> rows[i].id,
             totalVotes |-> rows[i].totalVotes,
             totalRevenue |-> rows[i].totalRevenue,
             voteChange |-> IF p # 0 THEN rows[i].totalVotes - cache[p].totalVotes
                            ELSE 0,
             rankChange |-> IF p # 0 THEN cache[p].rank - i ELSE 0]]

\* prisma.candidate.aggregate + the LeaderboardStats object of getStats.
GetStats(cs, last) ==
    [totalCandidates |-> Cardinality(Approved(cs)),
     totalVotes |-> SumOver(Approved(cs), [c \in Cands |-> cs[c].totalVotes]),
     totalRevenue |-> SumOver(Approved(cs), [c \in Cands |-> cs[c].totalRevenue]),
     lastUpdate |-> last]

\* leaderboard.slice(0, limit), limit >= 0.
Slice(s, limit) == SubSeq(s, 1, Min(limit, Len(s)))

\* Variant: the whole list whatever the limit.
GetTopCandidates_Whole(board, limit) == board
\* getTopCandidates, after getLeaderboard(100) returned board.
GetTopCandidates(board, limit) == Slice(board, limit)

\* Variant: every candidate row is counted.
CountApproved_All(cs) == Cardinality(Cands)
\* prisma.candidate.count({where: {status: APPROVED}})
CountApproved(cs) == Cardinality(Approved(cs))

\* The null of 'entry || null'.
Null == [null |-> TRUE]

\* leaderboard.find(e => e.candidateId === candidateId) || null
EntryOrNull(board, id) ==
    LET p == FindEntry(board, id)
    IN  IF p = 0 THEN Null ELSE board[p]

\* The threshold of a tight race: voteDiff <= 10.
TIGHT_GAP == 10

\* Variant: tied neighbours count as a tight race.
IsTight_TiesIncluded(d) == d >= 0 /\ d <= TIGHT_GAP
\* voteDiff > 0 && voteDiff <= 10
IsTight(d) == d > 0 /\ d <= TIGHT_GAP

\* The loop of getTightRaces from index i (1-based) with the pairs pushed so
\* far: it stops at the last but one entry or once limit pairs are pushed.
RECURSIVE TightFrom(_, _, _, _)
TightFrom(board, i, limit, races) ==
    IF ~(i < Len(board) /\ Len(races) < limit)
    THEN races
    ELSE LET voteDiff == board[i].totalVotes - board[i + 1].totalVotes
         IN  TightFrom(board, i + 1, limit,
                       IF IsTight(voteDiff)
                       THEN Append(races, [candidate1 |-> board[i],
                                           candidate2 |-> board[i + 1],
                                           voteDifference |-> voteDiff])
                       ELSE races)

GetTightRaces(board, limit) == TightFrom(board, 1, limit, <<>>)

\* Variant: entries whose votes did not change pass the filter.
Rising_Unchanged(e) == e.voteChange >= 0
\* entry.voteChange && entry.voteChange > 0
Rising(e) == e.voteChange # 0 /\ e.voteChange > 0

\* sort((a, b) => b.voteChange - a.voteChange): descending, equal keys
\* keeping their order (Array.prototype.sort is stable).
SortByVoteChange(s) ==
    LET place(i) ==
            1 + Cardinality({j \in 1..Len(s) : s[j].voteChange > s[i].voteChange})
              + Cardinality({j \in 1..(i - 1) : s[j].voteChange = s[i].voteChange})
    IN  [k \in 1..Len(s) |-> s[CHOOSE i \in 1..Len(s) : place(i) = k]]

\* getRisingStars, after getLeaderboard(100) returned board.
GetRisingStars(board, limit) ==
    Slice(SortByVoteChange(SelectSeq(board, Rising)), limit)

\* Variant: the country is left out of the where clause.
ApprovedIn_AnyCountry(cs, country) == Approved(cs)
\* where: { status: APPROVED, country }
ApprovedIn(cs, country) == {c \in Approved(cs) : cs[c].country = country}

\* prisma.candidate.findMany of getLeaderboardByCountry: same orderBy, the
\* select has the country and no id of a previous rank.
FindManyCountry(cs, country, limit) ==
    LET S == ApprovedIn(cs, country)
        place(c) == 1 + Cardinality({d \in S \ {c} : Before(cs[d], cs[c])})
    IN  [i \in 1..Min(limit, Cardinality(S)) |->
            LET c == CHOOSE d \in S : place(d) = i
            IN  [id |-> c, country |-> cs[c].country,
                 totalVotes |-> cs[c].totalVotes,
                 totalRevenue |-> cs[c].totalRevenue]]

\* candidates.map((candidate, index) => ...) of getLeaderboardByCountry: no
\* voteChange, no rankChange.
MapCountry(rows) ==
    [i \in 1..Len(rows) |->
        [rank |-> i, candidateId |-> rows[i].id, country |-> rows[i].country,
         totalVotes |-> rows[i].totalVotes,
         totalRevenue |-> rows[i].totalRevenue]]

\* ------------------------------------------------------------------- Init
\* The services and the gateway after construction, no request received yet:
\* everything but the candidate rows and the snapshot.
StartUp ==
    /\ vote = [v \in Votes |-> NoVote]
    /\ tx = [v \in Votes |-> "NONE"]
    /\ crpc = [v \in Votes |-> "none"]
    /\ issued = {}
    /\ call = [k \in Calls |-> NewCall]
    /\ pass = [o \in Passes |-> IdlePass]
    /\ lastUpdate = 0
    /\ updateInterval = 1
    /\ timers = {1}
    /\ updates = 0
    /\ applied = [v \in Votes |-> 0]
    /\ query = IdleQuery
    /\ client = [c \in Clients |-> NoClient]
    /\ inbox = [c \in Clients |-> <<>>]
    /\ admin = [a \in AdminPasses |-> IdleAdmin]

Init ==
    /\ cand = [c \in Cands |->
                 [status |-> IF c < NumCands THEN "APPROVED" ELSE "PENDING",
                  totalVotes |-> 0, totalRevenue |-> 0, createdAt |-> c,
                  country |-> CountryOf(c)]]
    /\ cachedLeaderboard = <<>>
    /\ StartUp

\* Candidate rows as the store may hold them when the services start: the
\* counters are those of earlier votes (amounts need not all have been
\* VOTE_AMOUNT), the last candidate may or may not be APPROVED.
DrawnRows ==
    {cs \in [Cands -> [status : {"APPROVED", "PENDING"},
                       totalVotes : 0..MaxDrawn,
                       totalRevenue : {0, VOTE_AMOUNT},
                       createdAt : Cands,
                       country : Countries]] :
        /\ \A c \in Cands : cs[c].createdAt = c /\ cs[c].country = CountryOf(c)
        /\ \A c \in Cands : c < NumCands => cs[c].status = "APPROVED"
        /\ cs[NumCands].status = "PENDING" =>
              cs[NumCands].totalVotes = 0 /\ cs[NumCands].totalRevenue = 0}

InitRank ==
    /\ cand \in DrawnRows
    /\ cachedLeaderboard = <<>>
    /\ StartUp

\* Vote counts that put neighbours level, exactly TIGHT_GAP apart and more
\* than TIGHT_GAP apart.
AskVotes == {0, TIGHT_GAP, 2 * TIGHT_GAP + 1}

\* Candidate rows whose counters are those of votes[c] votes of VOTE_AMOUNT
\* each; the last candidate has the given status.
AskRows(votes, last) ==
    [c \in Cands |->
        [status |-> IF c < NumCands THEN "APPROVED" ELSE last,
         totalVotes |-> votes[c],
         totalRevenue |-> votes[c] * VOTE_AMOUNT,
         createdAt |-> c,
         country |-> CountryOf(c)]]

\* The services with a store that has counted votes and a snapshot that is
\* empty or was computed, against an empty cache, when the counters were at
\* most what they are now.
InitAsk ==
    /\ \E votes \in [Cands -> AskVotes], last \in {"APPROVED", "PENDING"} :
          /\ cand = AskRows(votes, last)
          /\ \/ cachedLeaderboard = <<>>
             \/ \E old \in [Cands -> AskVotes] :
                   /\ \A c \in Cands : old[c] <= votes[c]
                   /\ cachedLeaderboard =
                          MapEntries(FindManyApproved(AskRows(old, last),
                                                      RefreshLimit), <<>>)
    /\ StartUp

\* The rows of the worked example: A and B have 100 votes (revenue 10000 and
\* 9500), C has 95 votes and revenue 20000 plus n votes of VOTE_AMOUNT
\* counted since; A, B, C were created in this order.  Any further
\* candidate is not APPROVED.
ExampleRows(n) ==
    [c \in Cands |->
        [status |-> IF c <= 3 THEN "APPROVED" ELSE "PENDING",
         totalVotes |-> IF c <= 2 THEN 100 ELSE IF c = 3 THEN 95 + n ELSE 0,
         totalRevenue |-> IF c = 1 THEN 10000
                          ELSE IF c = 2 THEN 9500
                          ELSE IF c = 3 THEN 20000 + n * VOTE_AMOUNT
                          ELSE 0,
         createdAt |-> c,
         country |-> CountryOf(c)]]

\* getLeaderboard(100) on the example's rows with n votes counted for C,
\* against the cache prev.
ExampleBoard(n, prev) ==
    MapEntries(FindManyApproved(ExampleRows(n), RefreshLimit), prev)

\* The example in progress: up to 6 votes counted for C (95 to 101); the
\* cache is empty, or the snapshot taken when m of them were counted, itself
\* the first snapshot or the one that followed the snapshot at m - 1.
InitExample ==
    /\ \E n \in 0..6 :
          /\ cand = ExampleRows(n)
          /\ \/ cachedLeaderboard = <<>>
             \/ \E m \in 0..n :
                   \/ cachedLeaderboard = ExampleBoard(m, <<>>)
                   \/ /\ m > 0
                      /\ cachedLeaderboard =
                            ExampleBoard(m, ExampleBoard(m - 1, <<>>))
    /\ StartUp

\* ----------------------------------------------------- VotesService.create
\* Steps 1 and 6: the candidate must exist and be APPROVED; the vote row is
\* created PENDING, without providerTxId; initializePayment is then called.
\* Votes are numbered in the order they are opened, and a vote is opened
\* once the create() call of the one before has ended (two create() calls
\* touch disjoint rows).
CreateVote(v, c) ==
    /\ crpc[v] = "none"
    /\ \A u \in Votes : u < v => crpc[u] = "done"
    /\ cand[c].status = "APPROVED"
    /\ vote' = [vote EXCEPT ![v] =
                  [status |-> "PENDING", providerTxId |-> 0, candidateId |-> c,
                   amount |-> VOTE_AMOUNT, isVerified |-> FALSE]]
    /\ crpc' = [crpc EXCEPT ![v] = "init"]
    /\ UNCHANGED <<cand, tx, issued, applied, call, pass, boardVars, sideVars>>

\* Step 7 succeeds: the provider has issued the reference; vote.update is sent.
CreateInitOk(v) ==
    /\ crpc[v] = "init"
    /\ issued' = issued \cup {RefOf(v)}
    /\ crpc' = [crpc EXCEPT ![v] = "link"]
    /\ UNCHANGED <<cand, vote, tx, applied, call, pass, boardVars, sideVars>>

\* Step 7 throws: the catch block marks the vote FAILED.
CreateInitFails(v) ==
    /\ crpc[v] = "init"
    /\ vote' = [vote EXCEPT ![v].status = "FAILED"]
    /\ crpc' = [crpc EXCEPT ![v] = "done"]
    /\ UNCHANGED <<cand, tx, issued, applied, call, pass, boardVars, sideVars>>

\* Step 8: vote.update({providerTxId}); transaction.create is sent.
CreateLink(v) ==
    /\ crpc[v] = "link"
    /\ vote' = [vote EXCEPT ![v].providerTxId = RefOf(v)]
    /\ crpc' = [crpc EXCEPT ![v] = "tx"]
    /\ UNCHANGED <<cand, tx, issued, applied, call, pass, boardVars, sideVars>>

\* Step 9: transaction.create({status: PENDING}); create returns.
CreateTx(v) ==
    /\ crpc[v] = "tx"
    /\ tx' = [tx EXCEPT ![v] = "PENDING"]
    /\ crpc' = [crpc EXCEPT ![v] = "done"]
    /\ UNCHANGED <<cand, vote, issued, applied, call, pass, boardVars, sideVars>>

\* --------------------------------------------- VotesService.confirmPayment
\* Variant: findFirst without its where clause (the first vote row).
FindFirstByRef_AnyVote(vs, ref) ==
    IF \E v \in Votes : vs[v].status # "NONE"
    THEN CHOOSE v \in Votes :
            /\ vs[v].status # "NONE"
            /\ \A u \in Votes : vs[u].status # "NONE" => v <= u
    ELSE 0

\* prisma.vote.findFirst({where: {providerTxId}}): the vote id, 0 for null.
FindFirstByRef(vs, ref) ==
    IF \E v \in Votes : vs[v].status # "NONE" /\ vs[v].providerTxId = ref
    THEN CHOOSE v \in Votes :
            /\ vs[v].status # "NONE" /\ vs[v].providerTxId = ref
            /\ \A u \in Votes :
                  (vs[u].status # "NONE" /\ vs[u].providerTxId = ref) => v <= u
    ELSE 0

\* Variant: no already-processed check.
AlreadyConfirmed_Never(status) == FALSE

\* Variant: the check tests the wrong status.
AlreadyConfirmed_Failed(status) == status = "FAILED"

\* Step 2: if (vote.paymentStatus === PaymentStatus.COMPLETED) return vote.
AlreadyConfirmed(status) == status = "COMPLETED"

\* Step 3: the data of prisma.vote.update.
UpdatedVote(row, outcome) ==
    [row EXCEPT !.status = outcome, !.isVerified = (outcome = "COMPLETED")]

\* Variant: the candidate is updated whatever the outcome.
ShouldIncrement_Always(outcome) == TRUE

\* Step 5: if (status === PaymentStatus.COMPLETED).
ShouldIncrement(outcome) == outcome = "COMPLETED"

\* Variant: the revenue increment is missing.
IncrementedCand_NoRevenue(row, amount) == [row EXCEPT !.totalVotes = @ + 1]

\* Variant: the counters are written from a read of the row taken before any
\* increment (read-modify-write instead of the store's atomic increment).
IncrementedCand_LostUpdate(row, amount) ==
    [row EXCEPT !.totalVotes = 1, !.totalRevenue = amount]

\* Step 5: totalVotes: {increment: 1}, totalRevenue: {increment: vote.amount}.
IncrementedCand(row, amount) ==
    [row EXCEPT !.totalVotes = @ + 1, !.totalRevenue = @ + amount]

\* Step 6: this.leaderboardGateway && this.leaderboardGateway.triggerUpdate.
GatewayInjected == TRUE

\* The call's position once the vote and transaction rows are written.
AfterRows(c) ==
    IF ShouldIncrement(c.outcome)
    THEN [c EXCEPT !.pc = "increment"]
    ELSE [c EXCEPT !.pc = "ret", !.ret = "updated"]

\* A webhook delivers (ref, outcome): confirmPayment is called and sends
\* findFirst.  Calls are numbered in the order they start.
ConfirmStart(k, ref, outcome) ==
    /\ call[k].pc = "new"
    /\ \A j \in Calls : j < k => call[j].pc # "new"
    /\ ref \in issued \cup {UnknownRef}
    /\ call' = [call EXCEPT ![k] =
                  [NewCall EXCEPT !.pc = "find", !.ref = ref, !.outcome = outcome]]
    /\ UNCHANGED <<storeVars, pass, boardVars, sideVars>>

\* Steps 1 and 2: findFirst resolves; null and already-COMPLETED return.
ConfirmFind(k) ==
    /\ call[k].pc = "find"
    /\ LET v == FindFirstByRef(vote, call[k].ref)
       IN  call' = [call EXCEPT ![k] =
              IF v = 0
              THEN [@ EXCEPT !.pc = "ret", !.ret = "null"]
              ELSE IF AlreadyConfirmed(vote[v].status)
              THEN [@ EXCEPT !.pc = "ret", !.ret = "existing", !.voteId = v,
                             !.seen = vote[v].status]
              ELSE [@ EXCEPT !.pc = "updateVote", !.voteId = v,
                             !.seen = vote[v].status,
                             !.hadTx = (tx[v] # "NONE")]]
    /\ UNCHANGED <<storeVars, pass, boardVars, sideVars>>

\* Step 3: prisma.vote.update writes the incoming status.
ConfirmUpdateVote(k) ==
    /\ call[k].pc = "updateVote"
    /\ vote' = [vote EXCEPT ![call[k].voteId] = UpdatedVote(@, call[k].outcome)]
    /\ call' = [call EXCEPT ![k] =
                  IF @.hadTx
                  THEN [@ EXCEPT !.pc = "updateTx", !.writes = @ + 1]
                  ELSE AfterRows([@ EXCEPT !.writes = @ + 1])]
    /\ UNCHANGED <<cand, tx, crpc, issued, applied, pass, boardVars, sideVars>>

\* Step 4: prisma.transaction.update, when the vote read had a transaction.
ConfirmUpdateTx(k) ==
    /\ call[k].pc = "updateTx"
    /\ tx' = [tx EXCEPT ![call[k].voteId] = call[k].outcome]
    /\ call' = [call EXCEPT ![k] = AfterRows([@ EXCEPT !.writes = @ + 1])]
    /\ UNCHANGED <<cand, vote, crpc, issued, applied, pass, boardVars, sideVars>>

\* Step 5: prisma.candidate.update increments the counters; step 6 then
\* calls triggerUpdate, which starts a recompute pass and awaits it.
ConfirmIncrement(k) ==
    /\ call[k].pc = "increment"
    /\ LET v == call[k].voteId
       IN  /\ cand' = [cand EXCEPT ![vote[v].candidateId] =
                         IncrementedCand(@, vote[v].amount)]
           /\ applied' = [applied EXCEPT ![v] = @ + 1]
    /\ IF GatewayInjected
       THEN /\ call' = [call EXCEPT ![k] =
                          [@ EXCEPT !.pc = "trigger", !.writes = @ + 1,
                                    !.incs = @ + 1, !.trigs = @ + 1]]
            /\ pass' = [pass EXCEPT ![k].pc = "findMany"]
       ELSE /\ call' = [call EXCEPT ![k] =
                          [@ EXCEPT !.pc = "ret", !.ret = "updated",
                                    !.writes = @ + 1, !.incs = @ + 1]]
            /\ pass' = pass
    /\ UNCHANGED <<vote, tx, crpc, issued, boardVars, sideVars>>

\* Variant: a failed pass makes confirmPayment end with the error.
ConfirmAfterTrigger_Rethrows(k) ==
    /\ call[k].pc = "trigger"
    /\ pass[k].pc \in {"done", "failed"}
    /\ call' = [call EXCEPT ![k] =
                  [@ EXCEPT !.pc = "ret",
                            !.ret = IF pass[k].pc = "failed" THEN "error"
                                    ELSE "updated"]]
    /\ UNCHANGED <<storeVars, pass, boardVars, sideVars>>
\* triggerUpdate has resolved (broadcastLeaderboardUpdate catches its own
\* errors): confirmPayment returns updatedVote.
ConfirmAfterTrigger(k) ==
    /\ call[k].pc = "trigger"
    /\ pass[k].pc \in {"done", "failed"}
    /\ call' = [call EXCEPT ![k] = [@ EXCEPT !.pc = "ret", !.ret = "updated"]]
    /\ UNCHANGED <<storeVars, pass, boardVars, sideVars>>

\* The awaited triggerUpdate rejects (a read of its pass has rejected and
\* the error left the pass): the catch block of step 6 logs a warning and
\* confirmPayment returns updatedVote.
ConfirmTriggerThrows(k) ==
    /\ call[k].pc = "trigger"
    /\ pass[k].pc \in {"findMany", "stats"}
    /\ pass' = [pass EXCEPT ![k] = [IdlePass EXCEPT !.pc = "failed"]]
    /\ call' = [call EXCEPT ![k] = [@ EXCEPT !.pc = "ret", !.ret = "updated"]]
    /\ UNCHANGED <<storeVars, boardVars, sideVars>>

\* An awaited store call of confirmPayment rejects (findFirst, vote.update,
\* transaction.update or candidate.update): nothing catches it, the call
\* ends with the exception and the writes made before it stay.
ConfirmStoreFails(k) ==
    /\ call[k].pc \in {"find", "updateVote", "updateTx", "increment"}
    /\ call' = [call EXCEPT ![k] = [@ EXCEPT !.pc = "ret", !.ret = "error"]]
    /\ UNCHANGED <<storeVars, pass, boardVars, sideVars>>

\* The caller has the result; the call's locals are gone.
ConfirmReturn(k) ==
    /\ call[k].pc = "ret"
    /\ call' = [call EXCEPT ![k] = [NewCall EXCEPT !.pc = "done"]]
    /\ UNCHANGED <<storeVars, pass, boardVars, sideVars>>

\* ------------------------- LeaderboardGateway.broadcastLeaderboardUpdate
\* Passes between their start and their completion.
InFlight ==
    {o \in Passes : pass[o].pc \in {"findMany", "compute", "stats", "emit"}}

\* clearInterval(h): the timer of handle h is disarmed.
\* Variant: the timer stays armed.
ClearInterval_Ignored(ts, h) == ts
ClearInterval(ts, h) == ts \ {h}

\* The handle setInterval returns: one that no armed timer and no field
\* holds (handles are numbered upwards).
NewHandle ==
    LET used == timers \cup {updateInterval}
    IN  1 + CHOOSE h \in used : \A g \in used : g <= h

\* startAutoUpdates (called by afterInit): an existing interval is cleared,
\* setInterval arms a new timer and its handle is stored.
StartAutoUpdates ==
    /\ NewHandle <= MaxStarts + 1
    /\ LET h == NewHandle
           ts == IF updateInterval # 0 THEN ClearInterval(timers, updateInterval)
                 ELSE timers
       IN  /\ timers' = ts \cup {h}
           /\ updateInterval' = h
    /\ UNCHANGED <<storeVars, call, pass, cachedLeaderboard, lastUpdate, updates,
                   sideVars>>

\* Variant: the field is reset, the timer is left armed.
StopAutoUpdates_FieldOnly ==
    /\ updateInterval # 0
    /\ updateInterval' = 0
    /\ UNCHANGED <<storeVars, call, pass, cachedLeaderboard, lastUpdate, updates,
                   timers, sideVars>>
\* stopAutoUpdates: with an interval set, the timer is cleared and the
\* field reset to null.
StopAutoUpdates ==
    /\ updateInterval # 0
    /\ timers' = ClearInterval(timers, updateInterval)
    /\ updateInterval' = 0
    /\ UNCHANGED <<storeVars, call, pass, cachedLeaderboard, lastUpdate, updates,
                   sideVars>>

\* setInterval callback: the tick of an armed timer calls
\* broadcastLeaderboardUpdate, which sends getLeaderboard's findMany.  Ticks
\* are numbered in order.
TimerTick(o) ==
    /\ timers # {}
    /\ o \in TickPasses
    /\ pass[o].pc = "idle"
    /\ \A q \in TickPasses : q < o => pass[q].pc # "idle"
    /\ pass' = [pass EXCEPT ![o].pc = "findMany"]
    /\ UNCHANGED <<storeVars, call, boardVars, sideVars>>

\* getLeaderboard: prisma.candidate.findMany resolves with the rows.
PassFindMany(o) ==
    /\ pass[o].pc = "findMany"
    /\ pass' = [pass EXCEPT ![o] =
                  [@ EXCEPT !.pc = "compute",
                            !.rows = FindManyApproved(cand, RefreshLimit)]]
    /\ UNCHANGED <<storeVars, call, boardVars, sideVars>>

\* getLeaderboard: ranks and changes against the cache, cache replaced;
\* getStats' aggregate is sent.
PassCompute(o) ==
    /\ pass[o].pc = "compute"
    /\ LET board == MapEntries(pass[o].rows, cachedLeaderboard)
       IN  /\ cachedLeaderboard' = board
           /\ pass' = [pass EXCEPT ![o] =
                         [@ EXCEPT !.pc = "stats", !.rows = <<>>, !.lb = board,
                                   !.wrote = TRUE]]
    /\ lastUpdate' = lastUpdate + 1
    /\ admin' = IF o \in AdminPasses
                   THEN [admin EXCEPT ![o].repl = @ + 1]
                   ELSE admin
    /\ UNCHANGED <<storeVars, call, updateInterval, timers, updates, query, client,
                   inbox>>

\* getStats: prisma.candidate.aggregate resolves.
PassStats(o) ==
    /\ pass[o].pc = "stats"
    /\ pass' = [pass EXCEPT ![o] =
                  [@ EXCEPT !.pc = "emit", !.stats = GetStats(cand, lastUpdate)]]
    /\ UNCHANGED <<storeVars, call, boardVars, sideVars>>

\* A message on a socket.
Msg(event, lb, stats) == [event |-> event, leaderboard |-> lb, stats |-> stats]

\* Variant: the emit reaches no socket.
Broadcast_Nobody(boxes, m) == boxes
\* server.emit(event, payload): every connected socket receives the message.
Broadcast(boxes, m) ==
    [c \in Clients |->
        IF client[c].state = "connected" THEN Append(boxes[c], m) ELSE boxes[c]]

\* server.emit('leaderboard:update', {leaderboard, stats}); the pass ends.
PassEmit(o) ==
    /\ pass[o].pc = "emit"
    /\ updates' = updates + 1
    /\ inbox' = Broadcast(inbox, Msg("update", pass[o].lb, pass[o].stats))
    /\ pass' = [pass EXCEPT ![o] = [IdlePass EXCEPT !.pc = "done"]]
    /\ admin' = IF o \in AdminPasses
                   THEN [admin EXCEPT ![o].pushed = pass[o].lb]
                   ELSE admin
    /\ UNCHANGED <<storeVars, call, cachedLeaderboard, lastUpdate, updateInterval, timers,
                   query, client>>

\* The awaited findMany of the pass rejects: the catch block logs, nothing
\* is emitted and the pass ends.
PassFindManyFails(o) ==
    /\ pass[o].pc = "findMany"
    /\ pass' = [pass EXCEPT ![o] = [IdlePass EXCEPT !.pc = "failed"]]
    /\ UNCHANGED <<storeVars, call, boardVars, sideVars>>

\* Variant: the rejection escapes the pass and takes the timer down.
PassStatsFails_StopsTimer(o) ==
    /\ pass[o].pc = "stats"
    /\ pass' = [pass EXCEPT ![o] = [IdlePass EXCEPT !.pc = "failed"]]
    /\ timers' = {}
    /\ UNCHANGED <<storeVars, call, cachedLeaderboard, lastUpdate, updateInterval,
                   updates, sideVars>>
\* The awaited aggregate of getStats rejects, after refreshLeaderboard has
\* returned: the catch block logs, nothing is emitted and the pass ends.
PassStatsFails(o) ==
    /\ pass[o].pc = "stats"
    /\ pass' = [pass EXCEPT ![o] = [IdlePass EXCEPT !.pc = "failed"]]
    /\ UNCHANGED <<storeVars, call, boardVars, sideVars>>

\* --------------------------------------- read queries through getLeaderboard
\* The handlers of GET /leaderboard?limit (getLeaderboard(limit)) and of the
\* top-N request (getTopCandidates(limit)).
QueryKinds == {"getLeaderboard", "getTopCandidates"}
\* The service calls that read without going through the ranking.
StoreKinds == {"getStats", "getCachedLeaderboard"}
\* The handlers of the other read requests of the controller.
DerivedKinds ==
    {"getCandidateRank", "getTightRaces", "getRisingStars",
     "getLeaderboardByCountry"}
\* The requests an observer may send on its socket besides the refresh.
SocketKinds == {"getCandidateRank", "getTopCandidates", "getLeaderboardByCountry"}
\* Limits a request may carry: one entry, or the default of 100.
QueryLimits == {1, RefreshLimit}

\* What a request of the kind asks about: a candidate id (one without a row
\* included), a country, or nothing.
ArgsOf(kind) ==
    CASE kind = "getCandidateRank" -> Cands \cup {UnknownCand}
      [] kind = "getLeaderboardByCountry" -> Countries
      [] OTHER -> {0}

\* The limit the handler passes to getLeaderboard: the request's for the
\* REST ranking, 100 for the calls that work on the full list.
LimitFor(kind, limit) == IF kind = "getLeaderboard" THEN limit ELSE RefreshLimit

\* The event name of the answer to a socket request.
EventOf(kind) ==
    CASE kind = "getCandidateRank" -> "candidate-rank-response"
      [] kind = "getTopCandidates" -> "top-response"
      [] kind = "getLeaderboardByCountry" -> "by-country-response"
      [] OTHER -> "none"

\* client.emit(event, data): the socket receives the message if it is still
\* connected.
Emit(boxes, c, m) ==
    [boxes EXCEPT ![c] = IF client[c].state = "connected"
                         THEN Append(@, m) ELSE @]

\* Where a service call stands after its synchronous part: getStats has
\* sent its aggregate, getCachedLeaderboard has returned the cache, the
\* others have sent their findMany.
FirstStep(kind) ==
    CASE kind = "getStats" -> "stats"
      [] kind = "getCachedLeaderboard" -> "ret"
      [] OTHER -> "findMany"

\* Variant: the list of getLeaderboardByCountry is written to the cache too.
WritesCache_Always(kind) == TRUE
\* The service calls that assign cachedLeaderboard and lastUpdate: those
\* that go through getLeaderboard.
WritesCache(kind) == kind # "getLeaderboardByCountry"

\* A request arrives (from = 0: at the controller; from = c: on socket c):
\* the handler calls the service, which runs up to its first await.
QueryStart(from, kind, arg, limit) ==
    /\ query.pc = "idle"
    /\ query.n < MaxQueries
    /\ from # 0 => client[from].state = "connected"
    /\ query' = [IdleQuery EXCEPT !.pc = FirstStep(kind), !.kind = kind,
                                  !.limit = limit, !.n = query.n + 1,
                                  !.from = from, !.arg = arg,
                                  !.result = IF kind = "getCachedLeaderboard"
                                             THEN cachedLeaderboard ELSE <<>>,
                                  !.last = query.last]
    /\ UNCHANGED <<storeVars, call, pass, boardVars, client, inbox, admin>>

\* prisma.candidate.findMany resolves with the rows: of getLeaderboard, or
\* of getLeaderboardByCountry.
QueryFindMany ==
    /\ query.pc = "findMany"
    /\ query' = [query EXCEPT
                    !.pc = "compute",
                    !.rows = IF query.kind = "getLeaderboardByCountry"
                             THEN FindManyCountry(cand, query.arg, query.limit)
                             ELSE FindManyApproved(cand, LimitFor(query.kind,
                                                                 query.limit))]
    /\ UNCHANGED <<storeVars, call, pass, boardVars, client, inbox, admin>>

\* What the service call returns from the list it computed.
ResultOf(kind, board, arg, limit) ==
    CASE kind = "getTopCandidates" -> GetTopCandidates(board, limit)
      [] kind = "getTightRaces" -> GetTightRaces(board, limit)
      [] kind = "getRisingStars" -> GetRisingStars(board, limit)
      [] kind = "getCandidateRank" -> EntryOrNull(board, arg)
      [] OTHER -> board

\* The service call has returned res: the controller holds it for its
\* response, the gateway emits it to the requesting socket.
Answer(res) ==
    IF query.from = 0
    THEN /\ query' = [query EXCEPT !.pc = "ret", !.rows = <<>>, !.result = res]
         /\ UNCHANGED inbox
    ELSE /\ query' = [IdleQuery EXCEPT !.n = query.n, !.last = query.last]
         /\ inbox' = Emit(inbox, query.from,
                          [event |-> EventOf(query.kind), data |-> res])

\* The rest of the service call once the rows are there. getLeaderboard:
\* ranks and changes against the cache, cache and lastUpdate replaced;
\* getLeaderboardByCountry maps its own rows and leaves the cache;
\* getCandidateRank goes on to its count.
QueryCompute ==
    /\ query.pc = "compute"
    /\ LET byCountry == query.kind = "getLeaderboardByCountry"
           board == IF byCountry THEN MapCountry(query.rows)
                    ELSE MapEntries(query.rows, cachedLeaderboard)
           res == ResultOf(query.kind, board, query.arg, query.limit)
       IN  /\ cachedLeaderboard' = IF WritesCache(query.kind) THEN board
                                   ELSE cachedLeaderboard
           /\ lastUpdate' = IF WritesCache(query.kind) THEN lastUpdate + 1
                            ELSE lastUpdate
           /\ IF query.kind = "getCandidateRank"
              THEN /\ query' = [query EXCEPT !.pc = "count", !.rows = <<>>,
                                             !.result = res]
                   /\ UNCHANGED inbox
              ELSE Answer(res)
    /\ UNCHANGED <<storeVars, call, pass, updateInterval, timers, updates, client, admin>>

\* getCandidateRank: prisma.candidate.count resolves.
QueryCount ==
    /\ query.pc = "count"
    /\ Answer([entry |-> query.result, total |-> CountApproved(cand)])
    /\ UNCHANGED <<storeVars, call, pass, boardVars, client, admin>>

\* getStats: prisma.candidate.aggregate resolves.
QueryStats ==
    /\ query.pc = "stats"
    /\ Answer(GetStats(cand, lastUpdate))
    /\ UNCHANGED <<storeVars, call, pass, boardVars, client, admin>>

\* The controller has sent its response.
QueryReturn ==
    /\ query.pc = "ret"
    /\ query' = [IdleQuery EXCEPT
                    !.n = query.n,
                    !.last = IF query.kind \in DerivedKinds
                             THEN [kind |-> query.kind, limit |-> query.limit,
                                   result |-> query.result]
                             ELSE NoAnswer]
    /\ UNCHANGED <<storeVars, call, pass, boardVars, client, inbox, admin>>

\* An awaited store call of the request rejects (findMany, the count of
\* getCandidateRank or the aggregate of getStats): the gateway's catch block emits 'leaderboard:error' to
\* the requesting socket; at the controller the exception ends the handler.
QueryFails ==
    /\ query.pc \in {"findMany", "count", "stats"}
    /\ query' = [IdleQuery EXCEPT !.n = query.n, !.last = query.last]
    /\ inbox' = IF query.from = 0 THEN inbox
                ELSE Emit(inbox, query.from,
                          [event |-> "error",
                           message |-> "Failed to get " \o query.kind])
    /\ client' = IF query.from = 0 THEN client
                 ELSE [client EXCEPT ![query.from].failed = @ + 1]
    /\ UNCHANGED <<storeVars, call, pass, boardVars, admin>>

\* ------------------------------------------------- observers of the gateway
\* handleConnection: the socket is connected (it receives the broadcasts
\* from now on) and sendLeaderboardToClient is called, not awaited; it
\* sends getLeaderboard's findMany.
Connect(c) ==
    /\ client[c].state = "off"
    /\ client' = [client EXCEPT ![c] =
                    [NoClient EXCEPT !.state = "connected", !.pc = "findMany"]]
    /\ UNCHANGED <<storeVars, call, pass, boardVars, query, inbox, admin>>

\* handleDisconnect: the socket is closed for good.
Disconnect(c) ==
    /\ client[c].state = "connected"
    /\ client' = [client EXCEPT ![c].state = "closed"]
    /\ UNCHANGED <<storeVars, call, pass, boardVars, query, inbox, admin>>

\* sendLeaderboardToClient, getLeaderboard(100): findMany resolves.
SendFindMany(c) ==
    /\ client[c].pc = "findMany"
    /\ client' = [client EXCEPT ![c] =
                    [@ EXCEPT !.pc = "compute",
                              !.rows = FindManyApproved(cand, RefreshLimit)]]
    /\ UNCHANGED <<storeVars, call, pass, boardVars, query, inbox, admin>>

\* sendLeaderboardToClient, getLeaderboard(100): ranks and changes against
\* the cache, cache and lastUpdate replaced; getStats' aggregate is sent.
SendCompute(c) ==
    /\ client[c].pc = "compute"
    /\ LET board == MapEntries(client[c].rows, cachedLeaderboard)
       IN  /\ cachedLeaderboard' = board
           /\ client' = [client EXCEPT ![c] =
                           [@ EXCEPT !.pc = "stats", !.rows = <<>>, !.lb = board]]
    /\ lastUpdate' = lastUpdate + 1
    /\ UNCHANGED <<storeVars, call, pass, updateInterval, timers, updates, query, inbox, admin>>

\* sendLeaderboardToClient, getStats: the aggregate resolves.
SendStats(c) ==
    /\ client[c].pc = "stats"
    /\ client' = [client EXCEPT ![c] =
                    [@ EXCEPT !.pc = "emit", !.stats = GetStats(cand, lastUpdate)]]
    /\ UNCHANGED <<storeVars, call, pass, boardVars, query, inbox, admin>>

\* client.emit('leaderboard:initial', {leaderboard, stats}); a closed socket
\* receives nothing.
SendEmit(c) ==
    /\ client[c].pc = "emit"
    /\ inbox' = [inbox EXCEPT ![c] =
                   IF client[c].state = "connected"
                   THEN Append(@, Msg("initial", client[c].lb, client[c].stats))
                   ELSE @]
    /\ client' = [client EXCEPT ![c] =
                    [@ EXCEPT !.pc = "idle", !.lb = <<>>, !.stats = <<>>]]
    /\ UNCHANGED <<storeVars, call, pass, boardVars, query, admin>>

\* handleRefresh: the observer emits 'leaderboard:refresh'; the handler
\* awaits sendLeaderboardToClient, which sends getLeaderboard's findMany.
Refresh(c) ==
    /\ client[c].state = "connected"
    /\ client[c].pc = "idle"
    /\ client[c].asked < MaxRefresh
    /\ client' = [client EXCEPT ![c] =
                    [@ EXCEPT !.pc = "findMany", !.asked = @ + 1]]
    /\ UNCHANGED <<storeVars, call, pass, boardVars, query, inbox, admin>>

\* sendLeaderboardToClient: the awaited findMany (pc "findMany") or the
\* aggregate of getStats (pc "stats") rejects; the catch block logs the
\* error and emits nothing. The send is a refresh request's when the
\* observer has asked for one (the send of handleConnection is over then).
SendFails(c) ==
    /\ client[c].pc \in {"findMany", "stats"}
    /\ client' = [client EXCEPT ![c] =
                    [@ EXCEPT !.pc = "idle", !.rows = <<>>, !.lb = <<>>,
                              !.failed = IF client[c].asked > 0 THEN @ + 1
                                         ELSE @]]
    /\ UNCHANGED <<storeVars, call, pass, boardVars, query, inbox, admin>>

\* ------------------------------------- LeaderboardController, POST refresh
\* The force-refresh request arrives: the controller calls
\* refreshLeaderboard(), whose getLeaderboard(100) sends findMany.
AdminStart(a) ==
    /\ admin[a].pc = "idle"
    /\ admin' = [admin EXCEPT ![a].pc = "findMany"]
    /\ UNCHANGED <<storeVars, call, pass, boardVars, query, client, inbox>>

\* getLeaderboard: prisma.candidate.findMany resolves with the rows.
AdminFindMany(a) ==
    /\ admin[a].pc = "findMany"
    /\ admin' = [admin EXCEPT ![a] =
                   [@ EXCEPT !.pc = "compute",
                             !.rows = FindManyApproved(cand, RefreshLimit)]]
    /\ UNCHANGED <<storeVars, call, pass, boardVars, query, client, inbox>>

\* getLeaderboard: ranks and changes against the cache, cache and lastUpdate
\* replaced; the controller keeps the list for its response and calls
\* triggerUpdate(), whose broadcastLeaderboardUpdate sends the findMany of
\* a recompute pass of its own.
AdminCompute(a) ==
    /\ admin[a].pc = "compute"
    /\ LET board == MapEntries(admin[a].rows, cachedLeaderboard)
       IN  /\ cachedLeaderboard' = board
           /\ admin' = [admin EXCEPT ![a] =
                          [@ EXCEPT !.pc = "trigger", !.rows = <<>>,
                                    !.lb = board, !.repl = @ + 1]]
    /\ lastUpdate' = lastUpdate + 1
    /\ pass' = [pass EXCEPT ![a].pc = "findMany"]
    /\ UNCHANGED <<storeVars, call, updateInterval, timers, updates, query, client,
                   inbox>>

\* triggerUpdate() has resolved (its pass emitted, or failed and logged):
\* the controller responds with the list refreshLeaderboard() returned.
AdminReturn(a) ==
    /\ admin[a].pc = "trigger"
    /\ pass[a].pc \in {"done", "failed"}
    /\ admin' = [admin EXCEPT ![a].pc = "returned"]
    /\ UNCHANGED <<storeVars, call, pass, boardVars, query, client, inbox>>

\* ------------------------------------------------------------ specification
Create ==
    \/ \E v \in Votes, c \in Cands : CreateVote(v, c)
    \/ \E v \in Votes : CreateInitOk(v)
    \/ \E v \in Votes : CreateInitFails(v)
    \/ \E v \in Votes : CreateLink(v)
    \/ \E v \in Votes : CreateTx(v)

ConfirmSteps ==
    \/ \E k \in Calls : ConfirmFind(k)
    \/ \E k \in Calls : ConfirmUpdateVote(k)
    \/ \E k \in Calls : ConfirmUpdateTx(k)
    \/ \E k \in Calls : ConfirmIncrement(k)
    \/ \E k \in Calls : ConfirmAfterTrigger(k)
    \/ \E k \in Calls : ConfirmReturn(k)

PassSteps ==
    \/ \E o \in TickPasses : TimerTick(o)
    \/ \E o \in Passes : PassFindMany(o)
    \/ \E o \in Passes : PassCompute(o)
    \/ \E o \in Passes : PassStats(o)
    \/ \E o \in Passes : PassEmit(o)

\* Handlers interleave at every await.
Next ==
    \/ Create
    \/ \E k \in Calls, ref \in 1..UnknownRef, outcome \in Outcomes :
          ConfirmStart(k, ref, outcome)
    \/ ConfirmSteps
    \/ PassSteps

Spec == Init /\ [][Next]_vars

QuerySteps ==
    \/ \E kind \in QueryKinds, limit \in QueryLimits :
           QueryStart(0, kind, 0, limit)
    \/ QueryFindMany
    \/ QueryCompute
    \/ QueryReturn

ClientSteps ==
    \/ \E c \in Clients : Connect(c)
    \/ \E c \in Clients : Disconnect(c)
    \/ \E c \in Clients : SendFindMany(c)
    \/ \E c \in Clients : SendCompute(c)
    \/ \E c \in Clients : SendStats(c)
    \/ \E c \in Clients : SendEmit(c)

PassFaults ==
    \/ \E o \in Passes : PassFindManyFails(o)
    \/ \E o \in Passes : PassStatsFails(o)

\* The recompute steps without the timer's tick.
PassRun ==
    \/ \E o \in Passes : PassFindMany(o)
    \/ \E o \in Passes : PassCompute(o)
    \/ \E o \in Passes : PassStats(o)
    \/ \E o \in Passes : PassEmit(o)

\* confirmPayment calls processed one after the other: a call starts only
\* when no other call is in progress.
SeqConfirmStart(k, ref, outcome) ==
    /\ \A j \in Calls : call[j].pc \in {"new", "done"}
    /\ ConfirmStart(k, ref, outcome)

\* The confirmation path with its calls in sequence: create, confirmPayment
\* and the passes its triggerUpdate starts.  The periodic timer is left out:
\* a timer pass reads the candidates and writes only the snapshot and its
\* own locals.
NextSeq ==
    \/ Create
    \/ \E k \in Calls, ref \in 1..UnknownRef, outcome \in Outcomes :
          SeqConfirmStart(k, ref, outcome)
    \/ ConfirmSteps
    \/ PassRun

SpecSeq == Init /\ [][NextSeq]_vars

\* Calls in sequence with store calls of confirmPayment that may reject.
NextWrite ==
    \/ NextSeq
    \/ \E k \in Calls : ConfirmStoreFails(k)

SpecWrite == Init /\ [][NextWrite]_vars

\* The confirmation path with its calls interleaved at every await, without
\* the periodic timer.
NextConfirm ==
    \/ Create
    \/ \E k \in Calls, ref \in 1..UnknownRef, outcome \in Outcomes :
          ConfirmStart(k, ref, outcome)
    \/ ConfirmSteps
    \/ PassRun

SpecConfirm == Init /\ [][NextConfirm]_vars

\* No other vote has been opened; no other confirmPayment call has started.
SoleVote(v) == \A u \in Votes \ {v} : crpc[u] = "none"
SoleCall(k) == \A j \in Calls \ {k} : call[j].pc = "new"

\* One vote is opened and its reference is confirmed COMPLETED by one call,
\* which triggers one recompute pass.
OneVote ==
    \/ \E v \in Votes, c \in Cands : SoleVote(v) /\ CreateVote(v, c)
    \/ \E v \in Votes : CreateInitOk(v)
    \/ \E v \in Votes : CreateLink(v)
    \/ \E v \in Votes : CreateTx(v)
    \/ \E k \in Calls, v \in Votes :
          SoleCall(k) /\ ConfirmStart(k, RefOf(v), "COMPLETED")
    \/ ConfirmSteps
    \/ PassRun

\* getLeaderboard under a changing store: one vote confirmed (its pass
\* recomputes) and read queries, from drawn candidate rows.
NextRank ==
    \/ OneVote
    \/ QuerySteps

SpecRank == InitRank /\ [][NextRank]_vars

\* Votes, the periodic timer and read queries, from the start-up state.
NextQuery ==
    \/ OneVote
    \/ \E o \in TickPasses : TimerTick(o)
    \/ QuerySteps

SpecQuery == Init /\ [][NextQuery]_vars

\* One observer, one confirmed vote and the periodic timer.
NextObs ==
    \/ OneVote
    \/ \E o \in TickPasses : TimerTick(o)
    \/ ClientSteps

SpecObs == Init /\ [][NextObs]_vars

\* One observer and its requests (refresh, candidate rank, top, by
\* country), with store reads that may reject.
NextReq ==
    \/ ClientSteps
    \/ \E c \in Clients : Refresh(c)
    \/ \E c \in Clients : SendFails(c)
    \/ \E c \in Clients, kind \in SocketKinds, limit \in QueryLimits :
           \E arg \in ArgsOf(kind) : QueryStart(c, kind, arg, limit)
    \/ QueryFindMany
    \/ QueryCompute
    \/ QueryCount
    \/ QueryFails

SpecReq == Init /\ [][NextReq]_vars

\* The scheduler started again and stopped beside one confirmed vote and
\* the ticks of the armed timers.
NextTimer ==
    \/ OneVote
    \/ \E o \in TickPasses : TimerTick(o)
    \/ StartAutoUpdates
    \/ StopAutoUpdates

SpecTimer == Init /\ [][NextTimer]_vars

AdminSteps ==
    \/ \E a \in AdminPasses : AdminStart(a)
    \/ \E a \in AdminPasses : AdminFindMany(a)
    \/ \E a \in AdminPasses : AdminCompute(a)
    \/ \E a \in AdminPasses : AdminReturn(a)

\* A force-refresh beside one confirmed vote and the periodic timer.
NextAdmin ==
    \/ OneVote
    \/ \E o \in TickPasses : TimerTick(o)
    \/ AdminSteps

SpecAdmin == Init /\ [][NextAdmin]_vars

\* Store reads of the passes that reject in one behaviour: the reads
\* succeed from then on.
MaxFaults == 1
\* The reads that may still reject.
FaultsLeft == MaxFaults - Cardinality({o \in Passes : pass[o].pc = "failed"})

\* An observer that stays connected, one confirmed vote and the periodic
\* timer, with at most MaxFaults failing passes.
NextLive ==
    \/ OneVote
    \/ \E o \in TickPasses : TimerTick(o)
    \/ \E c \in Clients : Connect(c)
    \/ \E c \in Clients : SendFindMany(c)
    \/ \E c \in Clients : SendCompute(c)
    \/ \E c \in Clients : SendStats(c)
    \/ \E c \in Clients : SendEmit(c)
    \/ FaultsLeft > 0 /\ PassFaults

\* The event loop runs every continuation whose awaited store call has
\* resolved, and the interval timer keeps firing.
FairLive ==
    /\ \A o \in Passes :
          /\ WF_vars(PassFindMany(o))
          /\ WF_vars(PassCompute(o))
          /\ WF_vars(PassStats(o))
          /\ WF_vars(PassEmit(o))
    /\ \A o \in TickPasses : WF_vars(TimerTick(o))

SpecLive == Init /\ [][NextLive]_vars /\ FairLive

\* Limits of the read requests: one, two, or the default of 100.
AskLimits == {1, 2, RefreshLimit}

\* The read requests of the controller.
NextAsk ==
    \/ \E kind \in QueryKinds \cup DerivedKinds, limit \in AskLimits :
           \E arg \in ArgsOf(kind) : QueryStart(0, kind, arg, limit)
    \/ QueryFindMany
    \/ QueryCompute
    \/ QueryCount
    \/ QueryReturn

\* The calls that only read, with store reads that may reject, between
\* ranking requests.
NextFrame ==
    \/ \E kind \in StoreKinds \cup {"getLeaderboardByCountry", "getLeaderboard"} :
           \E arg \in ArgsOf(kind), limit \in AskLimits :
               QueryStart(0, kind, arg, limit)
    \/ QueryFindMany
    \/ QueryCompute
    \/ QueryStats
    \/ QueryReturn
    \/ QueryFails

SpecFrame == InitAsk /\ [][NextFrame]_vars

SpecAsk == InitAsk /\ [][NextAsk]_vars

\* One confirmed vote and the periodic timer, with store reads of the
\* passes that may reject.
NextFault ==
    \/ OneVote
    \/ \E o \in TickPasses : TimerTick(o)
    \/ PassFaults

SpecFault == Init /\ [][NextFault]_vars

\* The same with a triggerUpdate that may reject.
NextTrigger ==
    \/ NextFault
    \/ \E k \in Calls : ConfirmTriggerThrows(k)

SpecTrigger == Init /\ [][NextTrigger]_vars

\* The same steps from the rows of the worked example.
SpecExample == InitExample /\ [][NextRank]_vars

\* ------------------------------------------------------------------ claims
\* The votes of candidate c.
VotesOf(c) == {v \in Votes : vote[v].candidateId = c}

\* Candidate counters are the sum of the increments made for its votes.
CountersMatchApplied ==
    \A c \in Cands :
        /\ cand[c].totalVotes = SumOver(VotesOf(c), applied)
        /\ cand[c].totalRevenue =
              SumOver(VotesOf(c), [v \in Votes |-> applied[v] * vote[v].amount])

\* C1: with confirmPayment calls processed one after the other, however often
\* one reference is confirmed COMPLETED its vote is counted exactly once: one
\* increment of totalVotes and one vote amount of totalRevenue in total.
C1_SequentialIdempotent ==
    /\ \A v \in Votes : applied[v] <= 1
    /\ CountersMatchApplied
    /\ \A k \in Calls :
          (call[k].pc = "ret" /\ call[k].outcome = "COMPLETED" /\ call[k].ret # "null")
             => /\ applied[call[k].voteId] = 1
                /\ cand[vote[call[k].voteId].candidateId].totalVotes
                      = Cardinality({v \in VotesOf(vote[call[k].voteId].candidateId) :
                                        vote[v].status = "COMPLETED"})

\* A second COMPLETED confirmation of a reference returns, the vote counted once.
C1_Witness ==
    \E k \in Calls :
        /\ call[k].pc = "ret" /\ call[k].ret = "existing"
        /\ call[k].outcome = "COMPLETED"
        /\ applied[call[k].voteId] = 1
        /\ cand[vote[call[k].voteId].candidateId].totalVotes = 1
        /\ cand[vote[call[k].voteId].candidateId].totalRevenue = VOTE_AMOUNT

\* C2: two deliveries of one COMPLETED confirmation processed concurrently
\* count the vote once: no vote is ever counted twice.
C2_NoDoubleCount == \A v \in Votes : applied[v] <= 1

\* C3: at most one recompute pass is between its start and its completion.
C3_SingleFlight == Cardinality(InFlight) <= 1

\* C4: while a recompute pass is in progress no other pass starts (a request
\* arriving then is dropped).
C4_DroppedWhileInProgress == [][InFlight # {} => InFlight' \subseteq InFlight]_vars

\* C5: a vote leaves PENDING at most once: a FAILED vote keeps its status, a
\* status changes only from PENDING, and a candidate is incremented only by a
\* call that found the vote PENDING.
C5_SingleTransition ==
    [][\A v \in Votes :
          /\ vote[v].status = "FAILED" => vote'[v].status = "FAILED"
          /\ vote'[v].status # vote[v].status => vote[v].status \in {"NONE", "PENDING"}
          /\ applied'[v] # applied[v] =>
                \E k \in Calls : /\ call[k].pc = "increment" /\ call[k].voteId = v
                                 /\ call[k].seen = "PENDING"]_vars

\* C6: a COMPLETED vote keeps its status, whatever confirmations are processed
\* later or concurrently, and a counted vote is never left FAILED.
C6_CompletedTerminal ==
    [][\A v \in Votes :
          /\ vote[v].status = "COMPLETED" => vote'[v].status = "COMPLETED"
          /\ applied'[v] > 0 => vote'[v].status # "FAILED"]_vars

\* C7: a call that finds its vote already COMPLETED returns the existing
\* record and does nothing else: no write to vote, transaction or candidate,
\* no triggerUpdate, no recompute pass.
C7_CompletedNoOp ==
    \A k \in Calls :
        call[k].seen = "COMPLETED" =>
            /\ call[k].pc = "ret" /\ call[k].ret = "existing"
            /\ call[k].writes = 0 /\ call[k].incs = 0 /\ call[k].trigs = 0
            /\ pass[k].pc = "idle"

\* A confirmation of a counted, COMPLETED vote has returned the existing record.
C7_Witness ==
    \E k \in Calls :
        /\ call[k].seen = "COMPLETED" /\ call[k].pc = "ret"
        /\ call[k].ret = "existing"
        /\ vote[call[k].voteId].status = "COMPLETED"
        /\ applied[call[k].voteId] = 1

\* C8: a call with outcome FAILED on a matched vote that is not COMPLETED
\* writes the vote's status and its transaction's status and nothing else: no
\* candidate increment, no triggerUpdate, no recompute pass.
C8_FailedStatusOnly ==
    \A k \in Calls :
        call[k].outcome = "FAILED" =>
            /\ call[k].incs = 0 /\ call[k].trigs = 0
            /\ call[k].pc \notin {"increment", "trigger"}
            /\ pass[k].pc = "idle"
            /\ (call[k].pc = "ret" /\ call[k].ret = "updated") =>
                  call[k].writes = (IF call[k].hadTx THEN 2 ELSE 1)

\* A FAILED confirmation has set a PENDING vote and its transaction to FAILED.
C8_Witness ==
    \E k \in Calls :
        /\ call[k].outcome = "FAILED" /\ call[k].pc = "ret"
        /\ call[k].ret = "updated" /\ call[k].seen = "PENDING" /\ call[k].hadTx
        /\ vote[call[k].voteId].status = "FAILED"
        /\ tx[call[k].voteId] = "FAILED"
        /\ cand[vote[call[k].voteId].candidateId].totalVotes = 0

\* C9: when findFirst resolves for a reference that no vote row carries, the
\* call returns null and nothing else changes; the call then only ends.
C9_UnmatchedIgnored ==
    [][\A k \in Calls :
          /\ (/\ call[k].pc = "find" /\ call'[k] # call[k]
              /\ \A v \in Votes : vote[v].providerTxId # call[k].ref)
                => /\ call'[k].pc = "ret" /\ call'[k].ret = "null"
                   /\ call'[k].writes = 0 /\ call'[k].trigs = 0
                   /\ UNCHANGED <<storeVars, pass, boardVars, sideVars>>
          /\ (call[k].ret = "null" /\ call'[k] # call[k])
                => /\ call'[k].pc = "done"
                   /\ UNCHANGED <<storeVars, pass, boardVars, sideVars>>]_vars

\* A confirmation has been reported unmatched while a PENDING vote exists.
C9_Witness ==
    \E k \in Calls :
        /\ call[k].pc = "ret" /\ call[k].ret = "null" /\ call[k].writes = 0
        /\ \E v \in Votes : vote[v].status = "PENDING" /\ vote[v].providerTxId # 0

Counted == {k \in Calls : call[k].pc \in {"trigger", "ret"} /\ call[k].incs = 1}

\* C11: COMPLETED confirmations of distinct vote records, interleaved in any
\* order, each increment their candidate once and no increment is lost: when
\* every call has made its increment, each vote is counted once and each
\* candidate's totalVotes (totalRevenue) is the number (the amounts) of its
\* votes confirmed, whether the votes are of one candidate or of several; at
\* any time the counters are the sum of the increments made.
C11_ConcurrentDistinctVotes ==
    /\ CountersMatchApplied
    /\ (/\ Counted = Calls
        /\ \A j, k \in Calls : j # k => call[j].voteId # call[k].voteId)
          => /\ \A k \in Calls : applied[call[k].voteId] = 1
             /\ \A c \in Cands :
                   /\ cand[c].totalVotes =
                         Cardinality({k \in Calls :
                                        vote[call[k].voteId].candidateId = c})
                   /\ cand[c].totalRevenue =
                         VOTE_AMOUNT *
                         Cardinality({k \in Calls :
                                        vote[call[k].voteId].candidateId = c})

\* Two calls in progress at once have confirmed two votes of one candidate.
C11_Witness ==
    /\ Counted = Calls
    /\ \A j, k \in Calls : j # k => call[j].voteId # call[k].voteId
    /\ \E c \in Cands :
          /\ \A k \in Calls : vote[call[k].voteId].candidateId = c
          /\ cand[c].totalVotes = MaxCalls
    /\ \E k \in Calls : call[k].pc = "trigger"

\* Every list getLeaderboard has returned that is still held somewhere: the
\* cache, the locals of passes and of sendLeaderboardToClient, the messages
\* received.
Snapshots ==
    {cachedLeaderboard}
        \cup {pass[o].lb : o \in Passes}
        \cup {client[c].lb : c \in Clients}
        \cup UNION {{inbox[c][i].leaderboard :
                        i \in {j \in 1..Len(inbox[c]) :
                                  inbox[c][j].event \in {"initial", "update"}}} :
                       c \in Clients}

\* C12: every snapshot has ranks 1..N, rank i at position i, its N entries
\* being distinct APPROVED candidates; a snapshot of a recompute pass (limit
\* 100) holds every APPROVED candidate.
C12_RanksOneToN ==
    /\ \A b \in Snapshots :
          /\ \A i \in 1..Len(b) :
                b[i].rank = i /\ b[i].candidateId \in Approved(cand)
          /\ \A i, j \in 1..Len(b) :
                i # j => b[i].candidateId # b[j].candidateId
          /\ Len(b) <= Cardinality(Approved(cand))
    /\ \A o \in Passes :
          pass[o].wrote =>
              Len(pass[o].lb) = Min(RefreshLimit, Cardinality(Approved(cand)))

\* A recomputed snapshot ranks every candidate, all of them APPROVED.
C12_Witness ==
    /\ Len(cachedLeaderboard) = NumCands
    /\ \A i \in 1..NumCands : cachedLeaderboard[i].rank = i
    /\ \E o \in Passes : pass[o].wrote /\ pass[o].lb = cachedLeaderboard

\* Entry a is not ranked worse than entry b: more votes, or as many votes and
\* more revenue, or as many of both and created no later.
NotWorse(a, b) ==
    \/ a.totalVotes > b.totalVotes
    \/ a.totalVotes = b.totalVotes /\ a.totalRevenue > b.totalRevenue
    \/ /\ a.totalVotes = b.totalVotes
       /\ a.totalRevenue = b.totalRevenue
       /\ cand[a.candidateId].createdAt <= cand[b.candidateId].createdAt

\* C13: in every snapshot the entries are ordered by votes descending, then
\* revenue descending, then creation time ascending, with the votes and the
\* revenue stored in the entries (the creation time is the row's).
C13_SortedByKey ==
    \A b \in Snapshots :
        \A k \in 1..(Len(b) - 1) : NotWorse(b[k], b[k + 1])

\* A snapshot in which a tie on votes is decided by revenue and a tie on
\* both by creation time.
C13_Witness ==
    /\ Len(cachedLeaderboard) = NumCands
    /\ \E k \in 1..(NumCands - 1) :
          /\ cachedLeaderboard[k].totalVotes = cachedLeaderboard[k + 1].totalVotes
          /\ cachedLeaderboard[k].totalRevenue > cachedLeaderboard[k + 1].totalRevenue
          /\ cachedLeaderboard[k].candidateId > cachedLeaderboard[k + 1].candidateId
    /\ \E k \in 1..(NumCands - 1) :
          /\ cachedLeaderboard[k].totalVotes = cachedLeaderboard[k + 1].totalVotes
          /\ cachedLeaderboard[k].totalRevenue = cachedLeaderboard[k + 1].totalRevenue

\* The positions of candidate id in the list b.
Places(b, id) == {p \in 1..Len(b) : b[p].candidateId = id}

\* C14: when getLeaderboard replaces the cache, every entry of the new
\* snapshot whose candidate was in the previous one has voteChange = its
\* totalVotes minus the previous entry's, and rankChange = the previous rank
\* minus its rank.
C14_ChangesAgainstPrevious ==
    [][lastUpdate' # lastUpdate =>
          \A i \in 1..Len(cachedLeaderboard') :
              \A p \in Places(cachedLeaderboard, cachedLeaderboard'[i].candidateId) :
                  /\ cachedLeaderboard'[i].voteChange =
                        cachedLeaderboard'[i].totalVotes
                            - cachedLeaderboard[p].totalVotes
                  /\ cachedLeaderboard'[i].rankChange =
                        cachedLeaderboard[p].rank - cachedLeaderboard'[i].rank]_vars

\* A snapshot in which a candidate has gained a vote and a rank since the
\* previous snapshot, and another has lost a rank.
C14_Witness ==
    /\ \E i \in 1..Len(cachedLeaderboard) :
          /\ cachedLeaderboard[i].voteChange = 1
          /\ cachedLeaderboard[i].rankChange >= 1
    /\ \E i \in 1..Len(cachedLeaderboard) :
          /\ cachedLeaderboard[i].voteChange = 0
          /\ cachedLeaderboard[i].rankChange = -1

\* C15: when getLeaderboard replaces the cache, every entry of the new
\* snapshot whose candidate was not in the previous one (every entry, when
\* the cache was empty) has voteChange = 0 and rankChange = 0.
C15_NewEntityZeroChange ==
    [][lastUpdate' # lastUpdate =>
          \A i \in 1..Len(cachedLeaderboard') :
              Places(cachedLeaderboard, cachedLeaderboard'[i].candidateId) = {} =>
                  /\ cachedLeaderboard'[i].voteChange = 0
                  /\ cachedLeaderboard'[i].rankChange = 0]_vars

\* A pass has computed a snapshot whose second entry has lost rank 1 to the
\* first, and the first has no change: it was not in the previous snapshot
\* (the one-entry list cached by a query with limit 1).
C15_Witness ==
    /\ query.n >= 1
    /\ \E o \in Passes :
          /\ pass[o].wrote /\ pass[o].lb = cachedLeaderboard
          /\ Len(pass[o].lb) >= 2
          /\ pass[o].lb[1].rankChange = 0
          /\ pass[o].lb[1].voteChange = 0
          /\ pass[o].lb[1].totalVotes > 0
          /\ pass[o].lb[2].rankChange = -1

\* The list b holds exactly A, B and C with va, vb and vc votes.
ExampleVotes(b, va, vb, vc) ==
    /\ Len(b) = 3
    /\ \A i \in 1..3 :
          b[i].totalVotes = (IF b[i].candidateId = 1 THEN va
                             ELSE IF b[i].candidateId = 2 THEN vb ELSE vc)
    /\ {b[i].candidateId : i \in 1..3} = {1, 2, 3}

\* The list b ranks candidates x, y, z first, second and third.
ExampleOrder(b, x, y, z) ==
    /\ Len(b) = 3
    /\ b[1].candidateId = x /\ b[1].rank = 1
    /\ b[2].candidateId = y /\ b[2].rank = 2
    /\ b[3].candidateId = z /\ b[3].rank = 3

\* C16: with A (100 votes, revenue 10000), B (100, 9500) and C (95, 20000)
\* created in this order, the snapshot is [A, B, C]; the snapshot computed
\* next with C at 96 votes keeps C third with voteChange 1; the snapshot
\* computed after that one with C at 101 votes is [C rank 1 rankChange +2,
\* A rank 2 rankChange -1, B rank 3 rankChange -1].
C16_WorkedExample ==
    [][lastUpdate' # lastUpdate =>
          /\ ExampleVotes(cachedLeaderboard', 100, 100, 95) =>
                ExampleOrder(cachedLeaderboard', 1, 2, 3)
          /\ (/\ ExampleVotes(cachedLeaderboard, 100, 100, 95)
              /\ ExampleVotes(cachedLeaderboard', 100, 100, 96)) =>
                /\ ExampleOrder(cachedLeaderboard', 1, 2, 3)
                /\ cachedLeaderboard'[3].voteChange = 1
                /\ cachedLeaderboard'[3].rankChange = 0
          /\ (/\ ExampleVotes(cachedLeaderboard, 100, 100, 96)
              /\ ExampleVotes(cachedLeaderboard', 100, 100, 101)) =>
                /\ ExampleOrder(cachedLeaderboard', 3, 1, 2)
                /\ cachedLeaderboard'[1].rankChange = 2
                /\ cachedLeaderboard'[2].rankChange = -1
                /\ cachedLeaderboard'[3].rankChange = -1]_vars

\* A pass triggered by the vote that brought C to 101 has computed the
\* snapshot that follows the one taken at 96 votes.
C16_Witness ==
    /\ cand[3].totalVotes = 101
    /\ \E v \in Votes : applied[v] = 1 /\ vote[v].candidateId = 3
    /\ \E o \in Passes : pass[o].wrote /\ pass[o].lb = cachedLeaderboard
    /\ ExampleVotes(cachedLeaderboard, 100, 100, 101)
    /\ ExampleOrder(cachedLeaderboard, 3, 1, 2)
    /\ cachedLeaderboard[1].voteChange = 5
    /\ cachedLeaderboard[1].rankChange = 2
    /\ cachedLeaderboard[2].rankChange = -1
    /\ cachedLeaderboard[3].rankChange = -1

\* C17: a step of a read query (a REST or socket request, or the delivery to
\* one observer) leaves cachedLeaderboard and lastUpdate as they are: only
\* recompute passes replace them.
C17_QueriesLeaveSnapshot ==
    [][(query' # query \/ client' # client) =>
          UNCHANGED <<cachedLeaderboard, lastUpdate>>]_vars

\* C18: the first message an observer receives is 'leaderboard:initial': no
\* 'leaderboard:update' reaches it before.
C18_InitialBeforeUpdate ==
    \A c \in Clients : inbox[c] # <<>> => inbox[c][1].event = "initial"

\* C19: of two messages an observer receives one after the other, the second
\* is not computed from an older read of the candidates than the first: no
\* candidate's totalVotes is lower in the second.
C19_MonotonePushes ==
    \A c \in Clients :
        \A i \in 1..(Len(inbox[c]) - 1) :
            \A p \in 1..Len(inbox[c][i].leaderboard) :
                \A q \in Places(inbox[c][i + 1].leaderboard,
                                inbox[c][i].leaderboard[p].candidateId) :
                    inbox[c][i + 1].leaderboard[q].totalVotes
                        >= inbox[c][i].leaderboard[p].totalVotes

\* C20: when a store read of a recompute pass rejects (the ranking read or
\* the stats read), the pass ends having left the Snapshot Store alone: it
\* has not replaced cachedLeaderboard and lastUpdate (lastUpdate moves
\* forward at every replacement, so a pass that has replaced them ends with
\* values other than those it started with), and it emits nothing.
C20_AbortKeepsSnapshot ==
    [][\A o \in Passes :
          (pass[o].pc \in {"findMany", "stats"} /\ pass'[o].pc = "failed") =>
              /\ ~pass[o].wrote
              /\ UNCHANGED <<cachedLeaderboard, lastUpdate, updates, inbox>>]_vars

\* C21: every replacement of the snapshot is made by a recompute pass that
\* then holds the new snapshot for its push: right after a replacement the
\* store never holds a snapshot that no pass is about to push.
C21_ReplacementPushed ==
    [][lastUpdate' # lastUpdate =>
          \E o \in Passes :
              /\ pass'[o].pc = "stats" /\ pass'[o].wrote
              /\ pass'[o].lb = cachedLeaderboard']_vars

\* The 'leaderboard:error' messages socket c has received.
Errors(c) == {i \in 1..Len(inbox[c]) : inbox[c][i].event = "error"}

\* C22: an observer that is still connected has received one
\* 'leaderboard:error' message for each of its requests (refresh, candidate
\* rank, top, by country) whose handling failed, and no other.
C22_FailureAnswered ==
    \A c \in Clients :
        (client[c].state = "connected" /\ client[c].pc = "idle"
            /\ (query.pc = "idle" \/ query.from # c))
        => Cardinality(Errors(c)) = client[c].failed

\* The controller holds the value a service call of the kind returned; no
\* recompute runs beside the request, so the cache is the list the call's
\* getLeaderboard computed.
Returned(kind) == query.pc = "ret" /\ query.kind = kind

\* The ranks k whose entry is ahead of the next one by 1 to TIGHT_GAP votes.
TightRanks(b) ==
    {k \in 1..(Len(b) - 1) :
        /\ b[k].totalVotes - b[k + 1].totalVotes > 0
        /\ b[k].totalVotes - b[k + 1].totalVotes <= TIGHT_GAP}

\* The i-th smallest element of a set of numbers.
Nth(S, i) == CHOOSE k \in S : Cardinality({j \in S : j < k}) = i - 1

Risers(b) == {i \in 1..Len(b) : b[i].voteChange > 0}

\* C24: getRisingStars(limit) returns exactly the entries with voteChange > 0,
\* by voteChange descending, truncated to limit: no entry with a zero or
\* negative change, no entry twice, and no entry left out has a larger
\* change than one returned.
C24_RisingStars ==
    Returned("getRisingStars") =>
        LET b == cachedLeaderboard
            r == query.result
        IN  /\ Len(r) = Min(query.limit, Cardinality(Risers(b)))
            /\ \A i \in 1..Len(r) :
                  /\ r[i].voteChange > 0
                  /\ \E k \in Risers(b) : b[k] = r[i]
            /\ \A i, j \in 1..Len(r) :
                  i < j => /\ r[i].voteChange >= r[j].voteChange
                           /\ r[i].candidateId # r[j].candidateId
            /\ \A k \in Risers(b) :
                  \/ \E i \in 1..Len(r) : r[i] = b[k]
                  \/ \A i \in 1..Len(r) : r[i].voteChange >= b[k].voteChange

\* Three risers, the one ranked last with the largest change, and a limit of
\* two: or two risers in rank order reversed beside an entry whose votes did
\* not change.
C24_Witness ==
    /\ Returned("getRisingStars")
    /\ Len(cachedLeaderboard) = NumCands
    /\ Len(query.result) = 2
    /\ query.result[1].voteChange > query.result[2].voteChange
    /\ query.result[1].rank > query.result[2].rank
    /\ \/ Cardinality(Risers(cachedLeaderboard)) = NumCands
       \/ \E i \in 1..NumCands : cachedLeaderboard[i].voteChange = 0

\* C25: for 1 <= N <= the length of the snapshot, getTopCandidates(N) returns
\* exactly the entries ranked 1..N of the full snapshot (every APPROVED
\* candidate, at most 100), in rank order.
C25_TopN ==
    (/\ Returned("getTopCandidates")
     /\ query.limit >= 1
     /\ query.limit <= Len(cachedLeaderboard)) =>
        /\ Len(cachedLeaderboard) = Cardinality(Approved(cand))
        /\ Len(query.result) = query.limit
        /\ \A i \in 1..query.limit :
              /\ query.result[i] = cachedLeaderboard[i]
              /\ query.result[i].rank = i

\* The top two of three.
C25_Witness ==
    /\ Returned("getTopCandidates")
    /\ query.limit = 2
    /\ Len(cachedLeaderboard) = NumCands
    /\ Len(query.result) = 2

\* C26: getCandidateRank(id) returns, without an exception, a null entry and
\* the current number of APPROVED candidates as total when id is not an
\* APPROVED candidate, and the candidate's entry of the snapshot when it is
\* in the snapshot.
C26_CandidateRank ==
    Returned("getCandidateRank") =>
        LET b == cachedLeaderboard
            r == query.result
        IN  /\ r.total = Cardinality(Approved(cand))
            /\ query.arg \notin Approved(cand) => r.entry = Null
            /\ \A i \in 1..Len(b) :
                  b[i].candidateId = query.arg => r.entry = b[i]

\* A null entry for a candidate that is not APPROVED, with a total of two.
C26_Witness ==
    /\ Returned("getCandidateRank")
    /\ query.arg = NumCands
    /\ cand[NumCands].status = "PENDING"
    /\ query.result.entry = Null
    /\ query.result.total = NumCands - 1

\* C27: getLeaderboardByCountry(country, limit) holds only APPROVED
\* candidates of that country, each once, the best limit of them, ordered
\* by the key of the full ranking and numbered 1..M on their own.
C27_ByCountry ==
    Returned("getLeaderboardByCountry") =>
        LET r == query.result
            group == {c \in Approved(cand) : cand[c].country = query.arg}
        IN  /\ Len(r) = Min(query.limit, Cardinality(group))
            /\ \A i \in 1..Len(r) :
                  /\ r[i].rank = i
                  /\ r[i].candidateId \in group
                  /\ r[i].country = query.arg
                  /\ r[i].totalVotes = cand[r[i].candidateId].totalVotes
                  /\ r[i].totalRevenue = cand[r[i].candidateId].totalRevenue
            /\ \A i, j \in 1..Len(r) :
                  i < j => /\ r[i].candidateId # r[j].candidateId
                           /\ NotWorse(r[i], r[j])
            /\ \A c \in group :
                  \/ \E i \in 1..Len(r) : r[i].candidateId = c
                  \/ \A i \in 1..Len(r) :
                        NotWorse(r[i], [candidateId |-> c,
                                        totalVotes |-> cand[c].totalVotes,
                                        totalRevenue |-> cand[c].totalRevenue])

\* Two candidates of the country asked for, ranked 1 and 2 of their group
\* while a candidate of another country leads the full ranking.
C27_Witness ==
    /\ Returned("getLeaderboardByCountry")
    /\ Len(query.result) = 2
    /\ query.result[1].candidateId > query.result[2].candidateId
    /\ \E c \in Approved(cand) :
          /\ cand[c].country # query.arg
          /\ cand[c].totalVotes > query.result[1].totalVotes

\* The sum of a field over the entries of a list.
RECURSIVE SumVotes(_)
SumVotes(b) == IF b = <<>> THEN 0 ELSE Head(b).totalVotes + SumVotes(Tail(b))
RECURSIVE SumRevenue(_)
SumRevenue(b) == IF b = <<>> THEN 0 ELSE Head(b).totalRevenue + SumRevenue(Tail(b))

\* C28: in every 'initial' or 'update' message received the stats are those
\* of the entries of the message's leaderboard: totalCandidates is their
\* number, totalVotes and totalRevenue are their sums.
C28_StatsOfSnapshot ==
    \A c \in Clients :
        \A i \in 1..Len(inbox[c]) :
            LET m == inbox[c][i]
            IN  m.event \in {"initial", "update"} =>
                    /\ m.stats.totalCandidates = Len(m.leaderboard)
                    /\ m.stats.totalVotes = SumVotes(m.leaderboard)
                    /\ m.stats.totalRevenue = SumRevenue(m.leaderboard)

\* C29: a force-refresh call that has returned made exactly one replacement
\* of the snapshot, and the list it returned is the list its recompute
\* pushed to the observers (same entries, same voteChange and rankChange).
C29_ForceRefreshOnce ==
    \A a \in AdminPasses :
        admin[a].pc = "returned" =>
            /\ admin[a].repl = 1
            /\ admin[a].lb = admin[a].pushed

\* Call k has just incremented the counters of candidate x and triggered
\* its pass, which has not read yet.
JustCounted(k, x) ==
    /\ call[k].pc = "trigger"
    /\ call[k].incs = 1
    /\ vote[call[k].voteId].candidateId = x
    /\ pass[k].pc = "findMany"

\* Observer c has received an 'update' whose entry of candidate x shows the
\* row's totalVotes.
Pushed(c, x) ==
    \E i \in 1..Len(inbox[c]) :
        /\ inbox[c][i].event = "update"
        /\ \E j \in 1..Len(inbox[c][i].leaderboard) :
              /\ inbox[c][i].leaderboard[j].candidateId = x
              /\ inbox[c][i].leaderboard[j].totalVotes = cand[x].totalVotes

\* C30: once a confirmation has incremented a candidate's counters, every
\* connected observer eventually receives an 'update' that shows the
\* candidate with the incremented totalVotes, from the pass the confirmation
\* triggered or from a later tick, provided the reads stop failing while a
\* tick is still to come (no more failures left than ticks).
C30_CountedThenPushed ==
    \A k \in Calls, c \in Clients, x \in Cands :
        (/\ JustCounted(k, x)
         /\ client[c].state = "connected"
         /\ FaultsLeft <= Cardinality({o \in TickPasses : pass[o].pc = "idle"}))
        ~> Pushed(c, x)

\* The pass a confirmation triggered has failed and the observer has the
\* incremented totalVotes from the pass of a tick.
C30_Witness ==
    \E k \in Calls, c \in Clients, x \in Cands :
        /\ pass[k].pc = "failed"
        /\ \E o \in TickPasses : pass[o].pc = "done"
        /\ cand[x].totalVotes = 1
        /\ Pushed(c, x)

\* C39: at most one interval timer is armed at any time, the one whose
\* handle updateInterval holds, however often startAutoUpdates is called.
C39_OneTimer ==
    /\ Cardinality(timers) <= 1
    /\ updateInterval # 0 => timers = {updateInterval}

\* startAutoUpdates has been called twice since construction: the third
\* handle is the only timer armed.
C39_Witness ==
    /\ updateInterval = MaxStarts + 1
    /\ timers = {MaxStarts + 1}

\* C32: once stopAutoUpdates has run, updateInterval is null, no timer is
\* armed and no pass of a tick is started; the passes in flight take their
\* steps as before.
C32_StoppedNoTicks ==
    [][updateInterval = 0 =>
          /\ timers = {}
          /\ \A o \in TickPasses : pass[o].pc = "idle" => pass'[o].pc = "idle"
          /\ \A o \in InFlight : ENABLED (PassFindMany(o) \/ PassCompute(o)
                                           \/ PassStats(o) \/ PassEmit(o))]_vars

\* The scheduler is stopped while the pass of a tick is about to emit.
C32_Witness ==
    /\ updateInterval = 0
    /\ \E o \in TickPasses : pass[o].pc = "emit"

\* The tick that fires next: the first pass of a tick that is still idle.
NextTick(o) ==
    /\ o \in TickPasses
    /\ pass[o].pc = "idle"
    /\ \A q \in TickPasses : q < o => pass[q].pc # "idle"

\* C31: a recompute pass that has failed leaves the scheduler running: the
\* timer of updateInterval is still armed, the next tick can start its pass,
\* and a confirmation that awaits its trigger goes on (the exception did not
\* leave the pass).
C31_FailureKeepsScheduler ==
    \A o \in Passes :
        pass[o].pc = "failed" =>
            /\ updateInterval # 0
            /\ timers = {updateInterval}
            /\ \A t \in TickPasses : NextTick(t) => ENABLED TimerTick(t)
            /\ \A k \in Calls :
                  (call[k].pc = "trigger" /\ pass[k].pc = "failed")
                      => ENABLED ConfirmAfterTrigger(k)

\* The pass a confirmation triggered has failed at its stats read, the
\* timer is armed, and the pass of a tick has broadcast.
C31_Witness ==
    /\ \E k \in Calls : pass[k].pc = "failed" /\ lastUpdate >= 2
    /\ \E t \in TickPasses : pass[t].pc = "done"
    /\ updates >= 1
    /\ timers # {}

\* No confirmPayment call is in progress.
Quiescent == \A k \in Calls : call[k].pc \in {"new", "done"}

\* The COMPLETED vote records of candidate c.
CompletedOf(c) == {v \in VotesOf(c) : vote[v].status = "COMPLETED"}

\* C33: whenever no confirmPayment call is in progress, each candidate's
\* totalVotes (0 at the start) is the number of its COMPLETED vote records
\* and its totalRevenue the sum of their amounts, store writes of
\* confirmPayment failing or not: no record is COMPLETED and not counted.
C33_QuiescentCounters ==
    Quiescent =>
        \A c \in Cands :
            /\ cand[c].totalVotes = Cardinality(CompletedOf(c))
            /\ cand[c].totalRevenue =
                  SumOver(CompletedOf(c), [v \in Votes |-> vote[v].amount])

\* C34: a confirmation whose reference initializePayment has returned for a
\* vote is never reported as unmatched (findFirst null): the vote carries
\* the reference before any confirmation of it is processed.
C34_IssuedRefMatched ==
    \A k \in Calls :
        (call[k].pc = "ret" /\ call[k].ref \in issued) => call[k].ret # "null"

\* The positions of the 'update' messages in the inbox of observer c.
UpdatesOf(c) == {i \in 1..Len(inbox[c]) : inbox[c][i].event = "update"}

\* C35: for two consecutive 'update' pushes received by an observer and
\* every entity present in both, voteChange of the later one is its
\* totalVotes minus the earlier one's and rankChange the earlier rank minus
\* the later one, whatever was served between the two pushes.
C35_ChangesBetweenPushes ==
    \A c \in Clients :
        \A i, j \in UpdatesOf(c) :
            (i < j /\ \A h \in UpdatesOf(c) : ~(i < h /\ h < j)) =>
                LET old == inbox[c][i].leaderboard
                    new == inbox[c][j].leaderboard
                IN  \A p \in 1..Len(old), q \in 1..Len(new) :
                        old[p].candidateId = new[q].candidateId =>
                            /\ new[q].voteChange
                                  = new[q].totalVotes - old[p].totalVotes
                            /\ new[q].rankChange = old[p].rank - new[q].rank

\* C36: a getRisingStars(limit) call that directly follows a
\* getRisingStars(limit) call, the store unchanged and no recompute pass in
\* between, returns the list the first call returned.
C36_RisingStarsRepeatable ==
    (/\ Returned("getRisingStars")
     /\ query.last.kind = "getRisingStars"
     /\ query.last.limit = query.limit)
        => query.result = query.last.result

\* The calls the frame claim is about.
ReadOnlyKinds == {"getLeaderboardByCountry", "getStats", "getCachedLeaderboard"}

\* C37: no step of a getLeaderboardByCountry, getStats or
\* getCachedLeaderboard call, from its start to its return or its failure,
\* changes cachedLeaderboard or lastUpdate.
C37_ReadsLeaveSnapshot ==
    [][(query' # query /\ (query.kind \in ReadOnlyKinds
                             \/ query'.kind \in ReadOnlyKinds))
          => UNCHANGED <<cachedLeaderboard, lastUpdate>>]_vars

\* getLeaderboardByCountry has returned entries and the snapshot is the
\* empty one of start-up.
C37_Witness ==
    /\ Returned("getLeaderboardByCountry")
    /\ Len(query.result) >= 1
    /\ cachedLeaderboard = <<>>
    /\ lastUpdate = 0

====
